---- MODULE Spec2Model ----
(***************************************************************************)
(* Context binding and template execution of boilr's template package:     *)
(* dirTemplate.BindPrompts / handleBindDefaults / handleBindPrompts build   *)
(* the function table, dirTemplate.Execute walks the template tree and      *)
(* renders every entry's name and contents against it.                      *)
(***************************************************************************)
EXTENDS Integers, Sequences, FiniteSets, TLC

VARIABLES
    Context,            \* dirTemplate.Context: key -> context value
    ShouldUseDefaults,  \* dirTemplate.ShouldUseDefaults
    FuncMap,            \* the package-level FuncMap that dirTemplate.FuncMap aliases
    cells,              \* the memo cell of every prompt.New closure created so far
    promptLog,          \* the prompts put to the user, in order (cell ids)
    stdin,              \* the user's answers, one per prompt, in order of asking
    obs,                \* per name, the values its binding returned in this render
    dest,               \* the destination tree: path -> node
    pc,                 \* position of Execute: new, walking, done, failed, panicked
    walked,             \* number of entries the walk has handed to the callback
    renders,            \* number of templates obtained with Get in this process
    last,               \* what the last callback did (entry, target, output, result)
    written             \* targets of the file entries rendered in this render

vars == <<Context, ShouldUseDefaults, FuncMap, cells, promptLog, stdin, obs,
          dest, pc, walked, renders, last, written>>

-----------------------------------------------------------------------------
(* Bounds of the model *)

MaxEntries == 3     \* entries of the template tree handed to the walk callback
MaxAnswers == 1     \* answers the user types; later prompts get the empty line
MaxRenders == 2     \* templates rendered one after the other in one process

-----------------------------------------------------------------------------
(* Context values (interface{} decoded from JSON): Scalar, List, Group *)

Scalar(s) == [tag |-> "Scalar", items |-> <<s>>, kids |-> <<>>]
List(xs)  == [tag |-> "List",   items |-> xs,    kids |-> <<>>]
Group(m)  == [tag |-> "Group",  items |-> <<>>,  kids |-> m]
Bool(b)   == [tag |-> "Bool",   items |-> <<IF b THEN "true" ELSE "false">>, kids |-> <<>>]
\* the outcome of a binding whose call panics (val[0] of an empty slice)
Panic     == [tag |-> "Panic",  items |-> <<>>,  kids |-> <<>>]
\* a nil interface{}: the cache of a prompt that has not been asked
Nil       == [tag |-> "Nil",    items |-> <<>>,  kids |-> <<>>]

IsGroup(v) == v.tag = "Group"

EmptyMap == [x \in {} |-> Nil]

\* m[k] = v for a Go map held as a function
MapSet(m, k, v) == [x \in (DOMAIN m) \cup {k} |-> IF x = k THEN v ELSE m[x]]

\* delete(m, k)
MapDel(m, k) == [x \in (DOMAIN m) \ {k} |-> m[x]]

-----------------------------------------------------------------------------
(* The function table: the closures that the binders store in FuncMap *)

\* A prompt closure is identified by the render that created it and by the key
\* (and, for a gate or a child, the Group) it was created for.
NoCell == <<"none", "", "", 0>>
TopCell(k)      == <<"top", "", k, renders>>
GateCell(g)     == <<"gate", g, "", renders>>
ChildCell(g, c) == <<"child", g, c, renders>>

\* func() bool { return false }
FalseBinding == [kind |-> "false", val |-> Nil, gate |-> NoCell, cell |-> NoCell]
\* the closure over val of handleBindDefaults
DefaultBinding(val) == [kind |-> "default", val |-> val, gate |-> NoCell, cell |-> NoCell]
\* the closure that calls advancedMode()
GateBinding(g) == [kind |-> "gate", val |-> Nil, gate |-> GateCell(g), cell |-> NoCell]
\* the closure over val and p that consults advancedMode
ChildBinding(g, c, val) ==
    [kind |-> "child", val |-> val, gate |-> GateCell(g), cell |-> ChildCell(g, c)]
\* prompt.New(parentKey, val) stored directly
PromptBinding(k) == [kind |-> "prompt", val |-> Nil, gate |-> NoCell, cell |-> TopCell(k)]

\* prompt.New(fieldName, defval): a closure with an empty cache
NewPrompt(name, defval) == [name |-> name, defval |-> defval, cache |-> Nil]

\* A mutant of DefaultValue: the slice case is missing.
DefaultValueWhole(val) == val

\* the body of the default closures: the first element of a slice, else the value
DefaultValue(val) ==
    IF val.tag = "List"
    THEN IF Len(val.items) = 0 THEN Panic ELSE Scalar(val.items[1])
    ELSE val

-----------------------------------------------------------------------------
(* handleBindDefaults and handleBindPrompts *)

\* for childKey := range childMap { t.FuncMap[childKey] = ... }; the keys of one
\* map are distinct, so the order of this inner loop cannot show in the result
BindChildDefaults(fm, kids) ==
    [x \in (DOMAIN fm) \cup (DOMAIN kids) |->
        IF x \in DOMAIN kids THEN DefaultBinding(kids[x]) ELSE fm[x]]

\* A mutant of handleBindDefaults: the children of a Group are not bound.
handleBindDefaultsNoKids(fm, ctx, parentKey) ==
    IF IsGroup(ctx[parentKey])
    THEN IF DOMAIN ctx[parentKey].kids # {} THEN MapSet(fm, parentKey, FalseBinding) ELSE fm
    ELSE MapSet(fm, parentKey, DefaultBinding(ctx[parentKey]))

handleBindDefaults(fm, ctx, parentKey) ==
    IF IsGroup(ctx[parentKey])
    THEN BindChildDefaults(IF DOMAIN ctx[parentKey].kids # {}
                           THEN MapSet(fm, parentKey, FalseBinding)
                           ELSE fm,
                           ctx[parentKey].kids)
    ELSE MapSet(fm, parentKey, DefaultBinding(ctx[parentKey]))

\* the child loop of handleBindPrompts on the table and on the prompt closures
BindChildPrompts(tbl, g, kids) ==
    [fm    |-> [x \in (DOMAIN tbl.fm) \cup (DOMAIN kids) |->
                  IF x \in DOMAIN kids THEN ChildBinding(g, x, kids[x]) ELSE tbl.fm[x]],
     cells |-> [c \in (DOMAIN tbl.cells) \cup {ChildCell(g, x) : x \in DOMAIN kids} |->
                  IF c \in {ChildCell(g, x) : x \in DOMAIN kids}
                  THEN NewPrompt(c[3], kids[c[3]])
                  ELSE tbl.cells[c]]]

handleBindPrompts(tbl, ctx, parentKey) ==
    IF IsGroup(ctx[parentKey])
    THEN BindChildPrompts(
            [fm    |-> IF DOMAIN ctx[parentKey].kids # {}
                       THEN MapSet(tbl.fm, parentKey, GateBinding(parentKey))
                       ELSE tbl.fm,
             cells |-> MapSet(tbl.cells, GateCell(parentKey),
                              NewPrompt(parentKey, Bool(FALSE)))],
            parentKey, ctx[parentKey].kids)
    ELSE [fm    |-> MapSet(tbl.fm, parentKey, PromptBinding(parentKey)),
          cells |-> MapSet(tbl.cells, TopCell(parentKey),
                           NewPrompt(parentKey, ctx[parentKey]))]

\* the loop of BindPrompts over the keys in the order `order`
RECURSIVE BindInOrder(_, _, _, _)
BindInOrder(order, tbl, ctx, useDefaults) ==
    IF order = <<>> THEN tbl
    ELSE BindInOrder(Tail(order),
                     IF useDefaults
                     THEN [fm    |-> handleBindDefaults(tbl.fm, ctx, Head(order)),
                           cells |-> tbl.cells]
                     ELSE handleBindPrompts(tbl, ctx, Head(order)),
                     ctx, useDefaults)

\* the orders in which `range t.Context` may visit the keys
Orders(S) == {o \in [1..Cardinality(S) -> S] : \A i, j \in DOMAIN o : o[i] = o[j] => i = j}

-----------------------------------------------------------------------------
(* Calling a binding.  st = [cells, log, obs] is threaded through the calls. *)

\* the user's answer to the next prompt: TRUE accepts/changes, FALSE keeps the default
NextAnswer(st) == IF Len(st.log) < Len(stdin) THEN stdin[Len(st.log) + 1] ELSE FALSE

\* what the prompt for a default of this shape returns for an answer
Answer(defval, yes) ==
    CASE defval.tag = "Bool" -> Bool(yes)
      [] defval.tag = "List" ->
            IF Len(defval.items) = 0 THEN Panic
            ELSE Scalar(defval.items[IF yes THEN Len(defval.items) ELSE 1])
      [] OTHER -> IF yes THEN Scalar("u") ELSE defval

\* the prompt was put to the user, who answered ans: the answer is cached
Asked(cell, st, ans) ==
    [st  |-> [st EXCEPT !.cells[cell].cache = ans, !.log = Append(@, cell)],
     ret |-> ans]

\* the closure returned by prompt.New: ask once, then answer from the cache
PromptCall(cell, st) ==
    IF st.cells[cell].cache # Nil
    THEN [st |-> st, ret |-> st.cells[cell].cache]
    ELSE Asked(cell, st, Answer(st.cells[cell].defval, NextAnswer(st)))

\* A mutant of GateClosure: the gate asks again on every call.
GateClosureFresh(b, st) ==
    [st  |-> [st EXCEPT !.log = Append(@, b.gate)],
     ret |-> Answer(Bool(FALSE), NextAnswer(st))]

\* func() interface{} { return advancedMode() }
GateClosure(b, st) == PromptCall(b.gate, st)

\* A mutant of ChildClosure: the child's prompt is asked before the gate is read.
ChildClosureEager(b, st) ==
    LET p == PromptCall(b.cell, st)
        g == PromptCall(b.gate, p.st)
    IN  IF g.ret = Bool(TRUE) THEN [st |-> g.st, ret |-> p.ret]
        ELSE [st |-> g.st, ret |-> b.val]

\* the child closure once advancedMode() has returned g
ChildAfterGate(b, g) ==
    IF g.ret.tag # "Bool" THEN [st |-> g.st, ret |-> Panic]
    ELSE IF g.ret = Bool(TRUE) THEN PromptCall(b.cell, g.st)
    ELSE [st |-> g.st, ret |-> b.val]

\* if isAdvanced := advancedMode().(bool); isAdvanced { return p() }; return val
ChildClosure(b, st) == ChildAfterGate(b, PromptCall(b.gate, st))

\* the closures of handleBindDefaults
DefaultClosure(b, st) == [st |-> st, ret |-> DefaultValue(b.val)]

Invoke(b, st) ==
    CASE b.kind = "false"   -> [st |-> st, ret |-> Bool(FALSE)]
      [] b.kind = "default" -> DefaultClosure(b, st)
      [] b.kind = "gate"    -> GateClosure(b, st)
      [] b.kind = "child"   -> ChildClosure(b, st)
      [] b.kind = "prompt"  -> PromptCall(b.cell, st)

\* the value r.ret reaches the template that called name
Returns(name, r) ==
    [st  |-> [r.st EXCEPT !.obs[name] = Append(@, r.ret)],
     ret |-> r.ret]

\* a template action {{name}}: call FuncMap[name]
CallFunc(name, st) == Returns(name, Invoke(FuncMap[name], st))

-----------------------------------------------------------------------------
(* Templates: a sequence of literal runs and {{name}} actions *)

Lit(s)  == [kind |-> "lit", text |-> s]
Ref(n)  == [kind |-> "ref", text |-> n]
Tmpl(toks) == [toks |-> toks, bad |-> FALSE]
\* a template text that does not parse (an unclosed action)
BadTmpl == [toks |-> <<>>, bad |-> TRUE]

RECURSIVE JoinItems(_)
JoinItems(xs) ==
    IF Len(xs) = 0 THEN <<>>
    ELSE IF Len(xs) = 1 THEN <<xs[1]>>
    ELSE <<xs[1], " ">> \o JoinItems(Tail(xs))

\* the bytes text/template prints for a value: a slice prints as [p q]
Text(v) ==
    IF v.tag = "List" THEN <<"[">> \o JoinItems(v.items) \o <<"]">> ELSE v.items

\* Parse: fails on a malformed text and on an action naming a function that the
\* table does not hold
ParseFails(t) ==
    t.bad \/ \E i \in DOMAIN t.toks :
                t.toks[i].kind = "ref" /\ t.toks[i].text \notin DOMAIN FuncMap

\* Execute: the nodes in order, each writing its output; a panic in a called
\* function is returned as the error and ends the execution
RECURSIVE Eval(_, _, _)
RECURSIVE EvalCalled(_, _, _)

\* the rest of the execution after the action at the head of toks returned r
EvalCalled(toks, out, r) ==
    IF r.ret.tag = "Panic"
    THEN [st |-> r.st, out |-> out, err |-> TRUE]
    ELSE Eval(Tail(toks), r.st, out \o Text(r.ret))

Eval(toks, st, out) ==
    IF toks = <<>> THEN [st |-> st, out |-> out, err |-> FALSE]
    ELSE IF Head(toks).kind = "lit"
    THEN Eval(Tail(toks), st, Append(out, Head(toks).text))
    ELSE EvalCalled(toks, out, CallFunc(Head(toks).text, st))

-----------------------------------------------------------------------------
(* The destination tree *)

Dir        == [kind |-> "dir",  data |-> <<>>]
File(data) == [kind |-> "file", data |-> data]
Absent     == [kind |-> "absent", data |-> <<>>]

NodeAt(fs, path) == IF path \in DOMAIN fs THEN fs[path] ELSE Absent

\* the bytes that `\S` does not match
RegexpSpace == {" ", "\t", "\n", "\f", "\r"}

\* A mutant of isOnlyWhitespace: only the empty buffer counts.
isOnlyWhitespaceEmpty(buf) == Len(buf) = 0

\* !regexp.MustCompile(`\S`).Match(buf)
isOnlyWhitespace(buf) == \A i \in DOMAIN buf : buf[i] \in RegexpSpace

\* os.Mkdir(target, 0755)
Mkdir(fs, target) ==
    IF target \in DOMAIN fs THEN [fs |-> fs, err |-> "EEXIST"]
    ELSE [fs |-> MapSet(fs, target, Dir), err |-> "nil"]

\* os.Remove(target): a file or an empty directory
Remove(fs, target) ==
    IF target \in DOMAIN fs THEN [fs |-> MapDel(fs, target), err |-> "nil"]
    ELSE [fs |-> fs, err |-> "ENOENT"]

\* os.OpenFile(target, O_CREATE|O_WRONLY|O_TRUNC, mode)
OpenFile(fs, target) == [fs |-> MapSet(fs, target, File(<<>>)), err |-> "nil"]

\* A mutant of ReplaceTarget: nothing is removed and the file is opened without
\* O_TRUNC, so an existing file keeps its bytes.
ReplaceTargetKeep(fs, target, fault) ==
    IF fault.step = "create" THEN [fs |-> fs, err |-> "create", rm |-> "nil"]
    ELSE IF NodeAt(fs, target).kind = "file" THEN [fs |-> fs, err |-> "nil", rm |-> "nil"]
    ELSE [fs |-> MapSet(fs, target, File(<<>>)), err |-> "nil", rm |-> "nil"]

\* "Delete target file if it exists", then create it.  fault.step is the step of the
\* callback that the file system refuses, if any; rm is what os.Remove returned.
CreateAfterRemove(r, target, fault) ==
    IF r.err # "nil" /\ r.err # "ENOENT"
    THEN [fs |-> r.fs, err |-> "remove", rm |-> r.err]
    ELSE IF fault.step = "create"
    THEN [fs |-> r.fs, err |-> "create", rm |-> r.err]
    ELSE [fs |-> OpenFile(r.fs, target).fs, err |-> "nil", rm |-> r.err]

ReplaceTarget(fs, target, fault) ==
    IF fault.step = "remove" THEN [fs |-> fs, err |-> "remove", rm |-> "EOTHER"]
    ELSE CreateAfterRemove(Remove(fs, target), target, fault)

\* writes from offset 0 of the open file
WriteFile(fs, target, bytes) ==
    MapSet(fs, target,
           File(bytes \o SubSeq(fs[target].data, Len(bytes) + 1, Len(fs[target].data))))

\* A mutant of Pruner: the file is read back and nothing is pruned.
PrunerOff(fs, fname, fault) ==
    [fs |-> fs, did |-> IF fault.prune = "read" THEN "read" ELSE "kept"]

\* the deferred func(fname): read the file back and remove it if it is only
\* whitespace.  fault.prune is the call that the file system refuses, if any:
\* a failed ioutil.ReadFile is logged and ends the func, the error of os.Remove
\* is dropped.  did is what became of the file: "read" and "remove" name the call
\* that failed, "removed" and "kept" are the two ends without a failure.
Pruner(fs, fname, fault) ==
    IF fault.prune = "read" \/ NodeAt(fs, fname).kind # "file"
    THEN [fs |-> fs, did |-> "read"]
    ELSE IF ~isOnlyWhitespace(fs[fname].data) THEN [fs |-> fs, did |-> "kept"]
    ELSE IF fault.prune = "remove" THEN [fs |-> fs, did |-> "remove"]
    ELSE [fs |-> Remove(fs, fname).fs, did |-> "removed"]

-----------------------------------------------------------------------------
(* The callback that Execute hands to filepath.Walk *)

NoLast == [isDir |-> FALSE, target |-> <<>>, out |-> <<>>, full |-> <<>>,
           old |-> Absent, rm |-> "nil", prune |-> "none", result |-> "none"]

\* what one call of the callback did: result is "ok" or the step that failed, and
\* prune is what the deferred pruner did ("none": it was not reached)
Outcome(st, fs, e, target, out, full, old, rm, prune, result) ==
    [st |-> st, fs |-> fs,
     last |-> [isDir |-> e.isDir, target |-> target, out |-> out, full |-> full,
               old |-> old, rm |-> rm, prune |-> prune, result |-> result]]

\* the callback returns with result after the deferred pruner ran (pr)
Deferred(e, target, old, rm, st, out, full, result, pr) ==
    Outcome(st, pr.fs, e, target, out, full, old, rm, pr.did, result)

\* the contents were executed (ev) and bytes is what reached the file: the deferred
\* pruner runs, and the callback returns ev's error, the write error, or nil
Written(e, fault, target, old, rm, fs, ev, bytes) ==
    Deferred(e, target, old, rm, ev.st, bytes, ev.out,
             IF ev.err THEN "exec" ELSE IF bytes # ev.out THEN "write" ELSE "ok",
             Pruner(WriteFile(fs, target, bytes), target, fault))

\* the target is open (rt): parse the contents and execute them into the file.  A
\* refused write keeps the output of the last node from the file.
Opened(e, fault, st, target, old, rt) ==
    IF rt.err # "nil"
    THEN Outcome(st, rt.fs, e, target, <<>>, <<>>, old, rt.rm, "none", rt.err)
    ELSE IF ParseFails(e.body)
    \* template.Must panics; the deferred pruner and Close still run
    THEN Deferred(e, target, old, rt.rm, st, <<>>, <<>>, "parse",
                  Pruner(rt.fs, target, fault))
    ELSE IF fault.step = "write" /\ e.body.toks # <<>>
    THEN Written(e, fault, target, old, rt.rm, rt.fs, Eval(e.body.toks, st, <<>>),
                 Eval(SubSeq(e.body.toks, 1, Len(e.body.toks) - 1), st, <<>>).out)
    ELSE Written(e, fault, target, old, rt.rm, rt.fs, Eval(e.body.toks, st, <<>>),
                 Eval(e.body.toks, st, <<>>).out)

\* the file branch of the callback, from os.Lstat on; st is the state after the
\* name was rendered to target
RenderFile(e, fault, st, fs, target) ==
    IF fault.step = "lstat"
    THEN Outcome(st, fs, e, target, <<>>, <<>>, NodeAt(fs, target), "nil", "none", "lstat")
    ELSE Opened(e, fault, st, target, NodeAt(fs, target), ReplaceTarget(fs, target, fault))

\* the callback once the name template was executed (n)
Named(e, fault, fs, n) ==
    IF n.err THEN Outcome(n.st, fs, e, <<>>, <<>>, <<>>, Absent, "nil", "none", "nameexec")
    ELSE IF e.isDir
    THEN IF fault.step = "mkdir"
         THEN Outcome(n.st, fs, e, n.out, <<>>, <<>>, NodeAt(fs, n.out), "nil", "none",
                      "mkdir")
         ELSE Outcome(n.st, Mkdir(fs, n.out).fs, e, n.out, <<>>, <<>>,
                      NodeAt(fs, n.out), "nil", "none", "ok")
    ELSE RenderFile(e, fault, n.st, fs, n.out)

WalkFn(e, fault, st, fs) ==
    IF fault.step = "walk"
    THEN Outcome(st, fs, e, <<>>, <<>>, <<>>, Absent, "nil", "none", "walk")
    ELSE IF ParseFails(e.name)
    THEN Outcome(st, fs, e, <<>>, <<>>, <<>>, Absent, "nil", "none", "nameparse")
    ELSE Named(e, fault, fs, Eval(e.name.toks, st, <<>>))

\* the results with which the callback ends in a panic, not in a returned error
Panics == {"nameparse", "parse"}

-----------------------------------------------------------------------------
(* Inputs: context files, template trees, the destination, the user *)

S  == Scalar("s")
L  == List(<<"p", "q">>)
E  == List(<<>>)

Kids1(k, v)        == [x \in {k} |-> v]
Kids2(k1, v1, k2, v2) == [x \in {k1, k2} |-> IF x = k1 THEN v1 ELSE v2]

\* the decoded project.json files tried; the first is the missing file (nil map)
Contexts ==
    { EmptyMap,
      Kids1("a", L),
      Kids1("a", E),
      Kids1("g", Group(EmptyMap)),
      Kids1("g", Group(Kids1("c", L))),
      Kids2("a", S, "g", Group(Kids1("c", L))),
      Kids2("a", L, "g", Group(Kids1("c", E))),
      Kids2("a", S, "g", Group(Kids1("a", L))),
      Kids1("g", Group(Kids1("g", S))),
      Kids2("g", Group(Kids1("c", S)), "h", Group(Kids1("c", L))) }

RootPath == <<".">>

\* the vertical tab, which \s of Go's regexp does not match
VT == "\\v"
OldData  == <<"o", "l", "d", "!">>

\* the destination directory before the render: it holds a file at f and nothing
\* at the other targets
DestStates ==
    { [p \in {RootPath, <<"f">>} |-> IF p = RootPath THEN Dir ELSE File(OldData)] }

RootEntry == [isDir |-> TRUE, name |-> Tmpl(<<Lit(".")>>), body |-> Tmpl(<<>>)]

DirEntries ==
    { [isDir |-> TRUE, name |-> n, body |-> Tmpl(<<>>)] :
        n \in {Tmpl(<<Lit("d")>>), Tmpl(<<Lit("f")>>)} }

FileBodies ==
    { Tmpl(<<>>), Tmpl(<<Lit(" ")>>), Tmpl(<<Lit("x")>>), Tmpl(<<Lit("\t"), Lit("\n")>>),
      Tmpl(<<Lit("\r"), Lit("\f")>>), Tmpl(<<Lit(VT)>>),
      Tmpl(<<Ref("a")>>), Tmpl(<<Ref("c")>>),
      Tmpl(<<Ref("c"), Ref("c")>>), Tmpl(<<Ref("g"), Ref("c")>>),
      Tmpl(<<Ref("c"), Ref("g")>>), Tmpl(<<Lit("x"), Ref("a")>>),
      BadTmpl }

\* every contents is tried under the fixed name; a name that calls a binding
\* carries a whitespace or a text contents, a name that does not parse carries any
FileEntries ==
    { [isDir |-> FALSE, name |-> Tmpl(<<Lit("f")>>), body |-> b] : b \in FileBodies } \cup
    { [isDir |-> FALSE, name |-> Tmpl(<<Ref("a")>>), body |-> b] :
        b \in {Tmpl(<<Lit(" ")>>), Tmpl(<<Lit("x")>>)} } \cup
    { [isDir |-> FALSE, name |-> BadTmpl, body |-> Tmpl(<<>>)] }

\* filepath.Walk visits the root first
Entries == IF walked = 0 THEN {RootEntry} ELSE DirEntries \cup FileEntries

\* the step of the callback that the file system may refuse; a step before the
\* contents are read fails alike for every contents, so one contents stands for all
Steps(e) ==
    IF e.isDir THEN {"none", "walk", "mkdir"}
    ELSE IF e.body = Tmpl(<<>>) THEN {"none", "walk", "lstat", "remove", "create"}
    ELSE {"none", "write"}

\* the contents without a call of a binding
Literal(body) == \A i \in DOMAIN body.toks : body.toks[i].kind = "lit"

\* the call of the deferred pruner that the file system may refuse, where the
\* callback gets as far as opening the target; the pruner sees the bytes of the
\* file only, so the literal contents stand for all
PruneFaults(e, step) ==
    IF e.isDir \/ step \in {"walk", "lstat", "remove", "create"} THEN {"none"}
    ELSE IF Literal(e.body) THEN {"none", "read", "remove"}
    ELSE {"none"}

Faults(e) ==
    UNION { { [step |-> s, prune |-> p] : p \in PruneFaults(e, s) } : s \in Steps(e) }

-----------------------------------------------------------------------------
(* The state machine *)

Init ==
    /\ Context \in Contexts
    /\ ShouldUseDefaults = FALSE
    /\ FuncMap = EmptyMap
    /\ cells = EmptyMap
    /\ promptLog = <<>>
    /\ stdin \in [1..MaxAnswers -> BOOLEAN]
    /\ obs = EmptyMap
    /\ dest \in DestStates
    /\ pc = "new"
    /\ walked = 0
    /\ renders = 1
    /\ last = NoLast
    /\ written = EmptyMap

\* UseDefaultValues, called before Execute
UseDefaultValues ==
    /\ pc = "new"
    /\ ~ShouldUseDefaults
    /\ ShouldUseDefaults' = TRUE
    /\ UNCHANGED <<Context, FuncMap, cells, promptLog, stdin, obs, dest, pc, walked,
                   renders, last, written>>

\* the table is built; no binding has been called in this render yet
Bound(tbl) ==
    /\ FuncMap' = tbl.fm
    /\ cells' = tbl.cells
    /\ obs' = [n \in DOMAIN tbl.fm |-> <<>>]

\* t.BindPrompts(), the first statement of Execute
BindPrompts ==
    /\ pc = "new"
    /\ \E order \in Orders(DOMAIN Context) :
          Bound(BindInOrder(order, [fm |-> FuncMap, cells |-> cells],
                            Context, ShouldUseDefaults))
    /\ pc' = "walking"
    /\ UNCHANGED <<Context, ShouldUseDefaults, promptLog, stdin, dest, walked, renders,
                   last, written>>

\* the callback is over with outcome r: an error ends the walk and Execute
Returned(r) ==
    /\ cells' = r.st.cells
    /\ promptLog' = r.st.log
    /\ obs' = r.st.obs
    /\ dest' = r.fs
    /\ last' = r.last
    /\ written' = IF r.last.result = "ok" /\ ~r.last.isDir
                   THEN MapSet(written, r.last.target,
                               [out |-> r.last.out, prune |-> r.last.prune])
                   ELSE written
    /\ pc' = IF r.last.result = "ok" THEN "walking"
              ELSE IF r.last.result \in Panics THEN "panicked"
              ELSE "failed"

\* one call of the walk callback, for the next entry of the template tree
WalkEntry ==
    /\ pc = "walking"
    /\ walked < MaxEntries
    /\ \E e \in Entries : \E fault \in Faults(e) :
          Returned(WalkFn(e, fault, [cells |-> cells, log |-> promptLog, obs |-> obs], dest))
    /\ walked' = walked + 1
    /\ UNCHANGED <<Context, ShouldUseDefaults, FuncMap, stdin, renders>>

\* the walk has no entry left: filepath.Walk, and Execute, return nil
WalkDone ==
    /\ pc = "walking"
    /\ walked >= 1
    /\ pc' = "done"
    /\ UNCHANGED <<Context, ShouldUseDefaults, FuncMap, cells, promptLog, stdin, obs,
                   dest, walked, renders, last, written>>

\* Get of another template in the same process: a new dirTemplate whose FuncMap
\* field is again the package-level FuncMap.  Its Execute is given a destination
\* directory of its own, which dest describes from here on.
Get ==
    /\ pc \in {"done", "failed"}
    /\ renders < MaxRenders
    /\ Context' \in Contexts
    /\ ShouldUseDefaults' = FALSE
    /\ renders' = renders + 1
    /\ pc' = "new"
    /\ walked' = 0
    /\ obs' = EmptyMap
    /\ last' = NoLast
    /\ written' = EmptyMap
    /\ dest' \in DestStates
    /\ UNCHANGED <<FuncMap, cells, promptLog, stdin>>

Next == UseDefaultValues \/ BindPrompts \/ WalkEntry \/ WalkDone

Spec == Init /\ [][Next]_vars

\* two templates rendered one after the other in one process
FirstContexts == {Kids1("a", L), Kids1("g", Group(Kids1("c", L)))}

InitTwo == Init /\ Context \in FirstContexts

NextTwo == UseDefaultValues \/ BindPrompts \/ WalkEntry \/ WalkDone \/ Get

SpecTwo == InitTwo /\ [][NextTwo]_vars

-----------------------------------------------------------------------------
(* Vocabulary of the properties *)

\* the state that a call of a binding made now would start from
Now == [cells |-> cells, log |-> promptLog, obs |-> obs]

\* the value the binding of name n returns when invoked now
Resolve(n) == Invoke(FuncMap[n], Now).ret

Groups == {g \in DOMAIN Context : IsGroup(Context[g])}
Leaves == {k \in DOMAIN Context : ~IsGroup(Context[k])}
ChildKeys(g) == DOMAIN Context[g].kids
NonEmptyGroups == {g \in Groups : ChildKeys(g) # {}}

\* the scopes that declare the name n: the top level, and every Group with a child n
Scopes(n) == {"" : k \in {x \in DOMAIN Context : x = n}} \cup
             {g \in Groups : n \in ChildKeys(g)}
DeclaredOnce(n) == Cardinality(Scopes(n)) = 1

\* the declared default of a Scalar or List, where there is one
HasDefault(v) == v.tag = "List" => Len(v.items) > 0
DeclaredDefault(v) == IF v.tag = "List" THEN Scalar(v.items[1]) ELSE v

\* the whitespace characters: space, tab, newline, carriage return and form feed,
\* which is what \s stands for in Go's regexp; the vertical tab is not one
Whitespace == {" ", "\t", "\n", "\r", "\f"}

\* whitespace only (also the empty content)
Blank(buf) == \A i \in DOMAIN buf : buf[i] \in Whitespace

\* the deferred pruner could not read the file back, or could not remove it
PruneFailed(did) == did \in {"read", "remove"}

ExecuteReturned == pc \in {"done", "failed"}

\* the table that BindPrompts builds when it visits the keys in the order o
TableFor(o) == BindInOrder(o, [fm |-> EmptyMap, cells |-> EmptyMap], Context,
                           ShouldUseDefaults).fm

-----------------------------------------------------------------------------
(* C1: defaults-only mode *)

\* C1 as stated: in defaults-only mode, after BindPrompts, every top-level
\* Scalar/List variable and every Group child has a binding that resolves to its
\* declared default (the first element of a List), the gate of every non-empty
\* Group resolves to false, and no prompt is issued.
C1_AsStated ==
    (ShouldUseDefaults /\ pc # "new") =>
        /\ \A k \in Leaves : HasDefault(Context[k]) =>
              k \in DOMAIN FuncMap /\ Resolve(k) = DeclaredDefault(Context[k])
        /\ \A g \in Groups : \A c \in ChildKeys(g) : HasDefault(Context[g].kids[c]) =>
              c \in DOMAIN FuncMap /\ Resolve(c) = DeclaredDefault(Context[g].kids[c])
        /\ \A g \in NonEmptyGroups : g \in DOMAIN FuncMap /\ Resolve(g) = Bool(FALSE)
        /\ promptLog = <<>>

\* C1 amended: the same, for the variables and gates whose name is declared in one
\* scope only: in defaults-only mode each such top-level Scalar/List variable and
\* Group child resolves to its declared default, each such non-empty Group's gate
\* resolves to false, and no prompt is issued at all.
C1_DefaultsOnly ==
    (ShouldUseDefaults /\ pc # "new") =>
        /\ \A k \in Leaves : (DeclaredOnce(k) /\ HasDefault(Context[k])) =>
              k \in DOMAIN FuncMap /\ Resolve(k) = DeclaredDefault(Context[k])
        /\ \A g \in Groups : \A c \in ChildKeys(g) :
              (DeclaredOnce(c) /\ HasDefault(Context[g].kids[c])) =>
              c \in DOMAIN FuncMap /\ Resolve(c) = DeclaredDefault(Context[g].kids[c])
        /\ \A g \in NonEmptyGroups : DeclaredOnce(g) =>
              g \in DOMAIN FuncMap /\ Resolve(g) = Bool(FALSE)
        /\ promptLog = <<>>

\* a defaults-only render is over in which a top-level variable and a List child of a
\* Group were both rendered into files
C1_Witness ==
    /\ ShouldUseDefaults /\ pc = "done"
    /\ Context = Kids2("a", S, "g", Group(Kids1("c", L)))
    /\ obs["a"] # <<>> /\ obs["c"] = <<Scalar("p"), Scalar("p")>>
    /\ promptLog = <<>>

-----------------------------------------------------------------------------
(* C2: the default of a gated child *)

\* C2: in interactive mode, once a Group's gate has resolved false, every child
\* binding of that Group resolves to the child's Scalar default, which for a List
\* default is its first element and never the whole List.
C2_GateFalseGivesScalarDefault ==
    (~ShouldUseDefaults /\ pc # "new") =>
        \A g \in Groups :
            (GateCell(g) \in DOMAIN cells /\ cells[GateCell(g)].cache = Bool(FALSE)) =>
                \A c \in ChildKeys(g) :
                    (FuncMap[c] = ChildBinding(g, c, Context[g].kids[c])
                        /\ HasDefault(Context[g].kids[c])) =>
                    Resolve(c) = DeclaredDefault(Context[g].kids[c])

-----------------------------------------------------------------------------
(* C3: the gate comes before the child's prompt *)

GateOf(cell) == <<"gate", cell[2], "", cell[4]>>

\* C3: in interactive mode a prompt for a Group's child is issued only after the
\* Group's gate was asked and resolved true; while a gate is resolved false, no
\* prompt of any child of that Group has been issued, whatever was invoked.
C3_GateBeforeChildPrompt ==
    ~ShouldUseDefaults =>
        \A i \in DOMAIN promptLog :
            promptLog[i][1] = "child" =>
                /\ \E j \in 1..(i - 1) : promptLog[j] = GateOf(promptLog[i])
                /\ cells[GateOf(promptLog[i])].cache = Bool(TRUE)

\* the user declined the gate of g, the child c was invoked in two files, and the
\* gate is the only prompt that was issued
C3_Witness ==
    /\ ~ShouldUseDefaults /\ pc = "done"
    /\ Context = Kids1("g", Group(Kids1("c", L)))
    /\ cells[GateCell("g")].cache = Bool(FALSE)
    /\ Len(obs["c"]) >= 3
    /\ promptLog = <<GateCell("g")>>

-----------------------------------------------------------------------------
(* C4: memoization within one render *)

\* C4: within one render every invocation of a binding returns the same value, and
\* no prompt, a Group's gate included, is put to the user more than once.
C4_Memoized ==
    /\ \A n \in DOMAIN obs : \A i, j \in DOMAIN obs[n] : obs[n][i] = obs[n][j]
    /\ \A i, j \in DOMAIN promptLog : promptLog[i] = promptLog[j] => i = j

\* the user accepted the gate of g; the gate and the prompted child c were invoked
\* again by a later file
C4_Witness ==
    /\ ~ShouldUseDefaults /\ pc = "done" /\ walked = 3
    /\ Context = Kids1("g", Group(Kids1("c", L)))
    /\ cells[GateCell("g")].cache = Bool(TRUE)
    /\ Len(obs["c"]) >= 2 /\ Len(obs["g"]) >= 2
    /\ promptLog = <<GateCell("g"), ChildCell("g", "c")>>

-----------------------------------------------------------------------------
(* C5: pruning of whitespace-only files *)

\* C5 as stated: after a render that succeeded, a file whose rendered content is
\* empty or whitespace only is absent from the destination, and a file whose
\* rendered content has a non-whitespace character is present with exactly that
\* content.
C5_AsStated ==
    pc = "done" =>
        \A t \in DOMAIN written :
            IF Blank(written[t].out)
            THEN NodeAt(dest, t).kind # "file"
            ELSE NodeAt(dest, t) = File(written[t].out)

\* C5 amended: after a render that succeeded, a file whose rendered content is
\* empty or only space, tab, newline, carriage return and form feed is absent from
\* the destination if the pruner could read it back and remove it, and is present
\* with exactly that content if not; a file whose rendered content has any other
\* character is present with exactly that content.
C5_PrunedOrExact ==
    pc = "done" =>
        \A t \in DOMAIN written :
            IF Blank(written[t].out) /\ ~PruneFailed(written[t].prune)
            THEN NodeAt(dest, t).kind # "file"
            ELSE NodeAt(dest, t) = File(written[t].out)

\* a render is over in which one file rendered to carriage return and form feed
\* and is gone, and another rendered to whitespace, could not be read back, and is
\* there
C5_Witness ==
    /\ pc = "done"
    /\ \E t \in DOMAIN written :
          /\ written[t].out = <<"\r", "\f">> /\ written[t].prune = "removed"
          /\ t \notin DOMAIN dest
    /\ \E t \in DOMAIN written :
          /\ written[t].out # <<>> /\ Blank(written[t].out) /\ written[t].prune = "read"
          /\ NodeAt(dest, t) = File(written[t].out)

-----------------------------------------------------------------------------
(* C6: complete replacement of an existing target *)

\* C6: when the target of a file entry existed as a file and the entry rendered
\* without error, the target holds exactly the new content, with no byte of the old
\* file (or was pruned, the new content being whitespace only); and a target that
\* was missing does not make the removal fail.
C6_FullOverwrite ==
    /\ (last.result = "ok" /\ ~last.isDir /\ last.old.kind = "file") =>
            IF Blank(last.out) /\ ~PruneFailed(last.prune)
            THEN last.target \notin DOMAIN dest
            ELSE NodeAt(dest, last.target) = File(last.out)
    /\ (~last.isDir /\ last.rm = "ENOENT") => last.result # "remove"

\* a file of four bytes was replaced by a rendering of one byte
C6_Witness ==
    /\ last.result = "ok" /\ ~last.isDir /\ pc = "walking"
    /\ last.old = File(OldData)
    /\ Len(last.out) = 1 /\ ~Blank(last.out)
    /\ dest[last.target] = File(last.out)

-----------------------------------------------------------------------------
(* C7: failure of an entry *)

\* C7: when rendering an entry fails, Execute returns the failure to its caller as
\* an error value, no later entry is processed, and the files that earlier entries
\* wrote are still on disk, unchanged.
C7_FailureReturned ==
    [][ (pc = "walking" /\ walked' = walked + 1 /\ last'.result # "ok") =>
            /\ pc' = "failed"
            /\ ~(ENABLED WalkEntry)'
            /\ \A t \in DOMAIN written : NodeAt(dest', t) = NodeAt(dest, t) ]_vars

-----------------------------------------------------------------------------
(* C8: the Binding Table of the second render *)

\* the names that a context gives a binding to
BoundNames(ctx) ==
    {k \in DOMAIN ctx : ~IsGroup(ctx[k]) \/ DOMAIN ctx[k].kids # {}} \cup
    UNION {DOMAIN ctx[g].kids : g \in {k \in DOMAIN ctx : IsGroup(ctx[k])}}

\* C8: the table that the second of two renders uses holds bindings for the
\* variables of the second template's own context only.
C8_TableOfOwnContext ==
    (renders >= 2 /\ pc # "new") => DOMAIN FuncMap \subseteq BoundNames(Context)

-----------------------------------------------------------------------------
(* C9: one binding per reachable name *)

ReachableNames == DOMAIN Context \cup UNION {ChildKeys(g) : g \in Groups}

\* C9 as stated: after BindPrompts every top-level key, Group keys included, and
\* every Group child key has a binding, and the function bound to a name is the
\* same for every order in which the keys of the context are visited.
C9_AsStated ==
    pc # "new" =>
        \A n \in ReachableNames :
            /\ n \in DOMAIN FuncMap
            /\ \A o \in Orders(DOMAIN Context) : TableFor(o)[n] = FuncMap[n]

\* C9 amended: after BindPrompts every top-level key other than the key of a Group
\* without children, and every Group child key, has a binding; for a name declared
\* in one scope only the function bound to it is the same for every order in
\* which the keys of the context are visited.
C9_OneBindingPerName ==
    pc # "new" =>
        \A n \in BoundNames(Context) :
            /\ n \in DOMAIN FuncMap
            /\ DeclaredOnce(n) =>
                  \A o \in Orders(DOMAIN Context) : TableFor(o)[n] = FuncMap[n]

\* a context of two top-level keys, one of them a Group, has been bound
C9_Witness ==
    /\ pc = "walking"
    /\ Context = Kids2("a", L, "g", Group(Kids1("c", E)))
    /\ DOMAIN FuncMap = {"a", "g", "c"}

-----------------------------------------------------------------------------
(* C10: what is left of an overwritten target *)

\* C10 as stated: when Execute returns, with success or with a failure of that
\* entry, a target that existed as a file holds its complete old content or the
\* complete new content (or is pruned, the complete new content being whitespace).
C10_AsStated ==
    (ExecuteReturned /\ ~last.isDir /\ last.old.kind = "file") =>
        \/ NodeAt(dest, last.target) = last.old
        \/ /\ last.result \in {"ok", "write"}
           /\ \/ NodeAt(dest, last.target) = File(last.full)
              \/ Blank(last.full) /\ NodeAt(dest, last.target) = Absent

\* C10 amended: the old file is removed before the new one is written.  On success
\* the target holds the complete new content (or is pruned).  On a failure of the
\* entry the old file is untouched if Lstat or the removal failed; after the
\* removal the target holds exactly the bytes written before the failure, whatever
\* the old content was, or is missing when these are empty or whitespace only (and
\* always when the file could not be created).  Pruned means that the pruner read
\* the file back and removed it; where it could not, the bytes stay.
C10_RemoveThenWrite ==
    (pc \in {"done", "failed", "panicked"} /\ ~last.isDir /\ last.old.kind = "file") =>
        CASE last.result \in {"lstat", "remove"} ->
                NodeAt(dest, last.target) = last.old
          [] last.result = "create" ->
                NodeAt(dest, last.target) = Absent
          [] last.result = "ok" ->
                NodeAt(dest, last.target) =
                    IF Blank(last.full) /\ ~PruneFailed(last.prune)
                    THEN Absent ELSE File(last.full)
          [] OTHER ->
                NodeAt(dest, last.target) =
                    IF Blank(last.out) /\ ~PruneFailed(last.prune)
                    THEN Absent ELSE File(last.out)

\* the evaluation of the contents failed after one byte: the old file is gone and
\* the target holds that byte
C10_Witness ==
    /\ pc = "failed" /\ last.result = "exec"
    /\ last.old = File(OldData)
    /\ NodeAt(dest, last.target) = File(<<"x">>)

====
